---- MODULE Spec2Model ----
(***************************************************************************)
(* funda-finder: the ETL reconciliation pipeline (funda_finder/etl.py)     *)
(* over a SQLAlchemy session, modelled as a state machine.                 *)
(*                                                                         *)
(* The database is the committed state (props, hist, metas).  The session  *)
(* is the open transaction: sprops/shist are what the session has flushed  *)
(* or changed since the last commit, pend are PriceHistory objects added   *)
(* to the session and not yet flushed.  A flush (autoflush before a query, *)
(* or the flush inside commit) inserts the pending rows and raises         *)
(* IntegrityError on the unique constraint (property_id, observed_at).     *)
(* session.rollback() discards everything since the last commit.           *)
(*                                                                         *)
(* Of the fields that _update_property compares and sets one by one,       *)
(* price and scraped_at are modelled; url, address, areas, ... go through  *)
(* the same loop as scraped_at.  updated_at is not modelled (it is written *)
(* only together with another change of the same row).  The properties     *)
(* table is the sequence of its rows in insertion order; the surrogate id  *)
(* of a row is its index.                                                  *)
(*                                                                         *)
(* The ORM classes are taken as etl.py uses them: ScrapeMeta(started_at)   *)
(* commits and yields a run_id, Property(...) accepts every attribute that *)
(* _insert_property passes.  db/models.py as it stands declares run_id     *)
(* NOT NULL without a default and Property without bathrooms: against that *)
(* schema the first commit of run() and every _insert_property raise.      *)
(* Those outcomes are in the model as StartRunFail and LoadItemFail, next  *)
(* to the outcomes in which the statement succeeds.                        *)
(*                                                                         *)
(* Functions that do not touch the pipeline's state are studied one call   *)
(* at a time, each in a specification of its own over args, trace and ret: *)
(* SpecBatch (ETLPipeline.run_batch), SpecTransform                        *)
(* (raw_to_validated_batch), SpecScore (calculate_undervalue_score and     *)
(* calculate_z_score), SpecComparables (get_comparable_properties),        *)
(* SpecStats (calculate_group_statistics), SpecRank                        *)
(* (find_undervalued_properties) and SpecComposite                         *)
(* (CompositeScraper.search).  Floats are fixed-point thousandths there.   *)
(* SpecConcurrent is the load of two runs on separate sessions of one      *)
(* PostgreSQL database, reduced to the rows' funda_ids.                    *)
(***************************************************************************)
EXTENDS Integers, Sequences, FiniteSets, TLC

\* ---------------------------------------------------------------- bounds
MaxIds == 2
MaxPrice == 2
MaxTime == 2
MaxListings == 3
MaxScraped == 3
MaxRuns == 3
MaxFaults == 1
\* batch_size of the pipeline (a constructor argument, default 100)
BatchSize == 2

Ids == 1..MaxIds
RawCities == {"amsterdam"}
FilterCities == {"Amsterdam", "amsterdam"}
PropertyType == {"buy", "rent"}

VARIABLES
    props,      \* committed properties rows; Property.id is the index
    hist,       \* committed price_history rows, in insertion order
    metas,      \* committed scrape_meta rows; run_id is the index
    sprops,     \* the session's view of properties (flushed, uncommitted)
    shist,      \* the session's view of price_history (flushed rows)
    pend,       \* PriceHistory objects added to the session, not flushed
    pc,         \* position of ETLPipeline.run
    filters,    \* SearchFilters of the run in progress
    raw,        \* raw_listings of the run in progress
    validated,  \* validated_listings of the run in progress
    idx,        \* index of the next listing of the load loop (1-based)
    counts,     \* new_count, updated_count and error_count of _load
    result,     \* the ETLResult returned by the last finished run
    rerun,      \* "no": the source scrapes afresh; "clean"/"dirty": it
                \* returns the listings of the run before, which had
                \* succeeded without database errors / had not
    clock,      \* latest timestamp handed out by datetime.utcnow
    nruns,      \* number of runs started
    nscraped,   \* number of listings the source has returned so far
    faults,     \* number of database faults injected so far
    props0,     \* history variable: the committed properties rows when the
                \* run in progress started (<<>> between runs)
    args,       \* the arguments of the call under study of a function that
                \* is studied on its own (run_batch, raw_to_validated_batch,
                \* the analyzer, CompositeScraper.search)
    trace,      \* the calls it has made to its collaborators, in order
    ret         \* what it has returned or raised ("running" until then)

\* the variables of the pipeline and those of a call studied on its own
pvars == <<props, hist, metas, sprops, shist, pend, pc, filters, raw,
           validated, idx, counts, result, rerun, clock, nruns, nscraped,
           faults, props0>>
cvars == <<args, trace, ret>>
vars == <<pvars, cvars>>

\* ------------------------------------------------------------ validation
\* PropertyListing.normalize_city: v.strip().title()
Title(c) == IF c = "amsterdam" THEN "Amsterdam"
            ELSE IF c = "rotterdam" THEN "Rotterdam" ELSE c

\* a validation that accepts every listing
IsValidAlways(r) == TRUE

\* PropertyListing: price is Field(gt=0); the other required fields of a
\* scraped listing are present.
IsValid(r) == r.price > 0

\* raw_to_validated: the fields of the PropertyListing built from a RawListing
RawToValidated(r) ==
    [funda_id |-> r.listing_id, price |-> r.price,
     city |-> Title(r.city), listing_type |-> r.property_type,
     scraped_at |-> r.scraped_at]

RECURSIVE RawToValidatedBatch(_)
\* raw_to_validated_batch: <<validated, failed>>
RawToValidatedBatch(rs) ==
    IF rs = <<>> THEN <<<<>>, <<>>>>
    ELSE LET rest == RawToValidatedBatch(Tail(rs))
             r == Head(rs)
         IN IF IsValid(r)
            THEN <<<<RawToValidated(r)>> \o rest[1], rest[2]>>
            ELSE <<rest[1], <<r>> \o rest[2]>>

\* --------------------------------------------------------------- session
\* a flush that succeeds without writing the pending rows
FlushLosesRows(sh, pd) == [ok |-> TRUE, hist |-> sh]

RECURSIVE Flush(_, _)
\* Session.flush: INSERT the pending PriceHistory rows; a row whose
\* (property_id, observed_at) is already present violates
\* uq_property_price_observation and the flush raises IntegrityError.
Flush(sh, pd) ==
    IF pd = <<>> THEN [ok |-> TRUE, hist |-> sh]
    ELSE IF \E k \in 1..Len(sh) :
                sh[k].pid = Head(pd).pid /\ sh[k].at = Head(pd).at
         THEN [ok |-> FALSE, hist |-> sh]
         ELSE Flush(Append(sh, Head(pd)), Tail(pd))

\* PriceHistory(property_id, price, observed_at)
PriceHistory(pid, price, at) == [pid |-> pid, price |-> price, at |-> at]

\* select(Property).where(Property.funda_id == funda_id): the ids of the rows
Existing(ps, funda_id) == {k \in 1..Len(ps) : ps[k].funda_id = funda_id}

\* Property.funda_id is unique=True: an INSERT of a row with this funda_id
\* would violate the unique index
FundaIdTaken(ps, funda_id) == \E k \in 1..Len(ps) : ps[k].funda_id = funda_id

\* ETLPipeline._insert_property: the Property row built from a listing
InsertProperty(l) ==
    [funda_id |-> l.funda_id, price |-> l.price, city |-> l.city,
     listing_type |-> l.listing_type, status |-> "active",
     scraped_at |-> l.scraped_at]

\* _update_property that reports every sighting as an update
UpdatePropertyAlways(pid, existing, l) ==
    [row |-> [existing EXCEPT !.price = l.price,
                              !.scraped_at = l.scraped_at,
                              !.status = "active"],
     ph |-> IF existing.price # l.price
            THEN <<PriceHistory(pid, l.price, l.scraped_at)>> ELSE <<>>,
     updated |-> TRUE]

\* _update_property that does not report a reactivation as an update
UpdatePropertyQuietReactivation(pid, existing, l) ==
    [row |-> [existing EXCEPT !.price = l.price,
                              !.scraped_at = l.scraped_at,
                              !.status = "active"],
     ph |-> IF existing.price # l.price
            THEN <<PriceHistory(pid, l.price, l.scraped_at)>> ELSE <<>>,
     updated |-> \/ existing.price # l.price
                 \/ existing.scraped_at # l.scraped_at]

\* _update_property that leaves the stored price as it was
UpdatePropertyKeepsPrice(pid, existing, l) ==
    [row |-> [existing EXCEPT !.scraped_at = l.scraped_at,
                              !.status = "active"],
     ph |-> IF existing.price # l.price
            THEN <<PriceHistory(pid, l.price, l.scraped_at)>> ELSE <<>>,
     updated |-> \/ existing.price # l.price
                 \/ existing.scraped_at # l.scraped_at
                 \/ existing.status # "active"]

\* _update_property that records the price of every sighting
UpdatePropertyEveryRow(pid, existing, l) ==
    [row |-> [existing EXCEPT !.price = l.price,
                              !.scraped_at = l.scraped_at,
                              !.status = "active"],
     ph |-> <<PriceHistory(pid, l.price, l.scraped_at)>>,
     updated |-> \/ existing.price # l.price
                 \/ existing.scraped_at # l.scraped_at
                 \/ existing.status # "active"]

\* ETLPipeline._update_property: the row after the update, the PriceHistory
\* objects it adds to the session, and its return value
UpdateProperty(pid, existing, l) ==
    LET priceChanged == existing.price # l.price
        fieldChanged == existing.scraped_at # l.scraped_at
        reactivated == existing.status # "active"
    IN [row |-> [existing EXCEPT !.price = l.price,
                                 !.scraped_at = l.scraped_at,
                                 !.status = "active"],
        ph |-> IF priceChanged
               THEN <<PriceHistory(pid, l.price, l.scraped_at)>> ELSE <<>>,
        updated |-> priceChanged \/ fieldChanged \/ reactivated]

\* a ScrapeMeta that is finished from the start
NewMetaFinished == [found |-> 0, new |-> 0, updated |-> 0, errors |-> 0,
                    finished |-> TRUE]

\* ScrapeMeta(started_at=...) with the column defaults
NewMeta == [found |-> 0, new |-> 0, updated |-> 0, errors |-> 0,
            finished |-> FALSE]

\* _create_error_result that leaves the run record as it is
ErrorMetasOrphan(ms, run_id) == ms

\* ETLPipeline._create_error_result: the run record after the attempt to
\* finalize it (run_id 0 is "no run record")
ErrorMetas(ms, run_id) ==
    IF run_id = 0 THEN ms
    ELSE [ms EXCEPT ![run_id].finished = TRUE, ![run_id].errors = 1]

\* _create_error_result that returns no error_message
ErrorResultNoMessage(run_id, error) ==
    [run |-> run_id, success |-> FALSE, found |-> 0, new |-> 0,
     updated |-> 0, inactive |-> 0, verr |-> 0, dberr |-> 0,
     error |-> "None"]

\* ETLPipeline._create_error_result: the ETLResult of a failed run; error is
\* the prefix that run() gives the error_message
ErrorResult(run_id, error) ==
    [run |-> run_id, success |-> FALSE, found |-> 0, new |-> 0,
     updated |-> 0, inactive |-> 0, verr |-> 0, dberr |-> 0,
     error |-> error]

\* no run has returned yet
NoResult == [run |-> 0, success |-> FALSE, found |-> 0, new |-> 0,
             updated |-> 0, inactive |-> 0, verr |-> 0, dberr |-> 0,
             error |-> "None"]

ZeroCounts == [new |-> 0, upd |-> 0, err |-> 0]

\* the set of funda_ids of a list of validated listings
ScrapedFundaIds(vs) == {vs[k].funda_id : k \in 1..Len(vs)}

\* ------------------------------------------------------------------ Init
PipelineInit ==
    /\ props = <<>> /\ hist = <<>> /\ metas = <<>>
    /\ sprops = <<>> /\ shist = <<>> /\ pend = <<>>
    /\ pc = "idle"
    /\ filters = [city |-> "Amsterdam", property_type |-> "buy"]
    /\ raw = <<>> /\ validated = <<>> /\ idx = 1
    /\ counts = ZeroCounts
    /\ result = NoResult
    /\ rerun = "no"
    /\ clock = 0 /\ nruns = 0 /\ nscraped = 0 /\ faults = 0
    /\ props0 = <<>>

\* no call is studied on its own
NoCall ==
    args = <<>> /\ trace = <<>> /\ ret = [status |-> "none", value |-> <<>>]

Init == PipelineInit /\ NoCall

\* --------------------------------------------------------------- actions
\* the local variables of _load() before and after the load stage
LoadLocals ==
    /\ validated' = <<>> /\ idx' = 1 /\ counts' = ZeroCounts

\* session.rollback(): everything since the last commit is discarded
Rollback ==
    /\ sprops' = props /\ shist' = hist /\ pend' = <<>>

\* ETLPipeline.run, lines 147-165: the run record is added and committed
StartRun ==
    /\ pc = "idle" /\ nruns < MaxRuns
    /\ \E c \in FilterCities, t \in PropertyType :
          filters' = [city |-> c, property_type |-> t]
    /\ metas' = Append(metas, NewMeta)
    /\ nruns' = nruns + 1
    /\ raw' = <<>> /\ rerun' = "no"
    /\ pc' = "extract"
    /\ UNCHANGED <<props, hist, sprops, shist, pend, validated, idx, counts,
                   result, clock, nscraped, faults>>
    /\ props0' = props
    /\ UNCHANGED cvars

\* ETLPipeline.run is called again with the filters of the run before, and
\* the source will answer with the listings it returned to that run (the
\* same RawListing objects, scraped_at included).
StartRunSame ==
    /\ pc = "idle" /\ nruns < MaxRuns
    /\ raw # <<>>
    /\ metas' = Append(metas, NewMeta)
    /\ nruns' = nruns + 1
    /\ rerun' = IF result.success /\ result.dberr = 0
                THEN "clean" ELSE "dirty"
    /\ pc' = "extract"
    /\ UNCHANGED <<props, hist, sprops, shist, pend, filters, raw, validated,
                   idx, counts, result, clock, nscraped, faults>>
    /\ props0' = props
    /\ UNCHANGED cvars

\* ETLPipeline.run, lines 156-160 and 217-224: the commit of the run record
\* raises SQLAlchemyError; run_id is still None, no run record is finalized
StartRunFail ==
    /\ pc = "idle" /\ nruns < MaxRuns /\ faults < MaxFaults
    /\ \E c \in FilterCities, t \in PropertyType :
          filters' = [city |-> c, property_type |-> t]
    /\ faults' = faults + 1
    /\ nruns' = nruns + 1
    /\ raw' = <<>> /\ rerun' = "no"
    /\ result' = ErrorResult(0, "Database error")
    /\ pc' = "idle"
    /\ UNCHANGED <<props, hist, metas, sprops, shist, pend, validated, idx,
                   counts, clock, nscraped>>
    /\ UNCHANGED props0
    /\ UNCHANGED cvars

\* The source builds one more RawListing; scraped_at is utcnow at the time
\* the listing is built, property_type is the one searched for.
Scrape ==
    /\ pc = "extract" /\ rerun = "no"
    /\ Len(raw) < MaxListings /\ nscraped < MaxScraped
    /\ \E i \in Ids, p \in 0..MaxPrice, c \in RawCities, t \in clock..MaxTime :
          /\ raw' = Append(raw, [listing_id |-> i, price |-> p, city |-> c,
                                 property_type |-> filters.property_type,
                                 scraped_at |-> t])
          /\ clock' = t
    /\ nscraped' = nscraped + 1
    /\ UNCHANGED <<props, hist, metas, sprops, shist, pend, pc, filters,
                   validated, idx, counts, result, rerun, nruns, faults>>
    /\ UNCHANGED props0
    /\ UNCHANGED cvars

\* ETLPipeline.run, lines 208-215: the source raises AllScrapersFailed
ExtractFail ==
    /\ pc = "extract" /\ raw = <<>>
    /\ Rollback
    /\ metas' = ErrorMetas(metas, Len(metas))
    /\ result' = ErrorResult(Len(metas), "All scrapers failed")
    /\ pc' = "idle"
    /\ UNCHANGED <<props, hist, filters, raw, validated, idx, counts, rerun,
                   clock, nruns, nscraped, faults>>
    /\ props0' = <<>>
    /\ UNCHANGED cvars

\* ETLPipeline.run, lines 208-215, and _create_error_result, lines 587-597:
\* the source raises AllScrapersFailed and the update of the run record
\* raises too; the exception is logged and the record stays as it was
ExtractFailOrphan ==
    /\ pc = "extract" /\ raw = <<>> /\ faults < MaxFaults
    /\ faults' = faults + 1
    /\ Rollback
    /\ result' = ErrorResult(Len(metas), "All scrapers failed")
    /\ pc' = "idle"
    /\ UNCHANGED <<props, hist, metas, filters, raw, validated, idx, counts,
                   rerun, clock, nruns, nscraped>>
    /\ props0' = <<>>
    /\ UNCHANGED cvars

\* ETLPipeline.run, lines 167-174: the source returns raw, listings_found is
\* committed and the listings are validated.  raw_to_validated_batch divides
\* by len(raw_listings) in its log line: an empty scrape raises
\* ZeroDivisionError, which run() turns into an error result.
Extract ==
    /\ pc = "extract"
    /\ LET run_id == Len(metas)
           ms == [metas EXCEPT ![run_id].found = Len(raw)]
           vf == RawToValidatedBatch(raw)
       IN IF raw = <<>>
          THEN /\ metas' = ErrorMetas(ms, run_id)
               /\ result' = ErrorResult(run_id, "Unexpected error")
               /\ pc' = "idle"
               /\ validated' = <<>>
          ELSE /\ metas' = ms
               /\ validated' = vf[1]
               /\ pc' = IF vf[1] = <<>> THEN "mark" ELSE "load"
               /\ result' = result
    /\ Rollback
    /\ UNCHANGED <<props, hist, filters, raw, idx, counts, rerun, clock, nruns,
                   nscraped, faults>>
    /\ props0' = IF raw = <<>> THEN <<>> ELSE props0
    /\ UNCHANGED cvars

\* the last listing of its batch: range(0, len, batch_size) slices
BatchEnd(k, n) == k % BatchSize = 0 \/ k = n

\* number of listings of the batch that ends at listing k
BatchLen(k) == IF k % BatchSize = 0 THEN BatchSize ELSE k % BatchSize

\* ETLPipeline._load, lines 358-390: one listing of the batch
LoadItem ==
    /\ pc = "load"
    /\ LET l == validated[idx]
           fl == Flush(shist, pend)
           found == Existing(sprops, l.funda_id)
       IN IF ~fl.ok
          THEN \* the select autoflushes: IntegrityError, session.rollback()
               /\ Rollback
               /\ counts' = [counts EXCEPT !.err = @ + 1]
          ELSE IF Cardinality(found) > 1
          THEN \* scalar_one_or_none raises MultipleResultsFound
               /\ Rollback
               /\ counts' = [counts EXCEPT !.err = @ + 1]
          ELSE IF found # {}
          THEN LET pid == CHOOSE k \in found : TRUE
                   u == UpdateProperty(pid, sprops[pid], l)
               IN /\ sprops' = [sprops EXCEPT ![pid] = u.row]
                  /\ shist' = fl.hist
                  /\ pend' = u.ph
                  /\ counts' = IF u.updated
                               THEN [counts EXCEPT !.upd = @ + 1] ELSE counts
          ELSE IF FundaIdTaken(sprops, l.funda_id)
          THEN \* the flush of the INSERT violates the unique funda_id
               /\ Rollback
               /\ counts' = [counts EXCEPT !.err = @ + 1]
          ELSE /\ sprops' = Append(sprops, InsertProperty(l))
               /\ shist' = fl.hist
               /\ pend' = <<PriceHistory(Len(sprops) + 1, l.price,
                                          l.scraped_at)>>
               /\ counts' = [counts EXCEPT !.new = @ + 1]
    /\ pc' = IF BatchEnd(idx, Len(validated)) THEN "commit" ELSE "load"
    /\ idx' = idx + 1
    /\ UNCHANGED <<props, hist, metas, filters, raw, validated, result, rerun,
                   clock, nruns, nscraped, faults>>
    /\ UNCHANGED props0
    /\ UNCHANGED cvars

\* ETLPipeline._load, lines 376-390: persisting the listing raises (the
\* select, the Property constructor, the flush of the INSERT, ...); the
\* handler rolls the session back, counts one error and goes on
LoadItemFail ==
    /\ pc = "load" /\ faults < MaxFaults
    /\ faults' = faults + 1
    /\ Rollback
    /\ counts' = [counts EXCEPT !.err = @ + 1]
    /\ pc' = IF BatchEnd(idx, Len(validated)) THEN "commit" ELSE "load"
    /\ idx' = idx + 1
    /\ UNCHANGED <<props, hist, metas, filters, raw, validated, result, rerun,
                   clock, nruns, nscraped, props0>>
    /\ UNCHANGED cvars

\* ETLPipeline._load, lines 392-402: the commit of the batch
CommitBatch ==
    /\ pc = "commit"
    /\ LET fl == Flush(shist, pend)
       IN IF fl.ok
          THEN /\ props' = sprops /\ hist' = fl.hist
               /\ sprops' = sprops /\ shist' = fl.hist /\ pend' = <<>>
               /\ counts' = counts
          ELSE /\ Rollback
               /\ counts' = [counts EXCEPT !.err = @ + BatchLen(idx - 1)]
               /\ UNCHANGED <<props, hist>>
    /\ pc' = IF idx > Len(validated) THEN "mark" ELSE "load"
    /\ UNCHANGED <<metas, filters, raw, validated, idx, result, rerun, clock,
                   nruns, nscraped, faults>>
    /\ UNCHANGED props0
    /\ UNCHANGED cvars

\* ETLPipeline._load, lines 399-402: the commit raises another SQLAlchemyError
\* (the connection is lost, a deadlock, ...): rollback, the batch is counted
CommitBatchFail ==
    /\ pc = "commit" /\ faults < MaxFaults
    /\ faults' = faults + 1
    /\ Rollback
    /\ counts' = [counts EXCEPT !.err = @ + BatchLen(idx - 1)]
    /\ pc' = IF idx > Len(validated) THEN "mark" ELSE "load"
    /\ UNCHANGED <<props, hist, metas, filters, raw, validated, idx, result,
                   rerun, clock, nruns, nscraped>>
    /\ UNCHANGED props0
    /\ UNCHANGED cvars

\* _mark_inactive that takes no account of the funda_ids of the scrape
ToMarkInactiveAll(ps, ids, city, ptype) ==
    {k \in 1..Len(ps) : /\ ps[k].city = city
                        /\ ps[k].listing_type = ptype
                        /\ ps[k].status = "active"}

\* ETLPipeline._mark_inactive, lines 543-555: the properties that the select
\* returns and the loop changes
ToMarkInactive(ps, ids, city, ptype) ==
    {k \in 1..Len(ps) : /\ ps[k].city = city
                        /\ ps[k].listing_type = ptype
                        /\ ps[k].status = "active"
                        /\ ps[k].funda_id \notin ids}

\* a _mark_inactive that deletes the rows it should mark
MarkInactiveDeletes(ps, ids, city, ptype) ==
    LET Stays(row) == ~(/\ row.city = city
                        /\ row.listing_type = ptype
                        /\ row.status = "active"
                        /\ row.funda_id \notin ids)
    IN SelectSeq(ps, Stays)

\* ETLPipeline._mark_inactive: the properties after it
MarkInactive(ps, ids, city, ptype) ==
    [k \in 1..Len(ps) |->
        IF k \in ToMarkInactive(ps, ids, city, ptype)
        THEN [ps[k] EXCEPT !.status = "inactive"] ELSE ps[k]]

\* ETLPipeline._load, lines 404-414, and ETLPipeline.run, lines 181-206:
\* mark inactive, finalize the run record, return the result
Finish ==
    /\ pc = "mark"
    /\ LET ids == ScrapedFundaIds(validated)
           gone == ToMarkInactive(sprops, ids, filters.city,
                                  filters.property_type)
           ps == MarkInactive(sprops, ids, filters.city,
                              filters.property_type)
           run_id == Len(metas)
           verr == Len(raw) - Len(validated)
       IN /\ props' = ps /\ sprops' = ps
          /\ metas' = [metas EXCEPT ![run_id].new = counts.new,
                                    ![run_id].updated = counts.upd,
                                    ![run_id].errors = verr + counts.err,
                                    ![run_id].finished = TRUE]
          /\ result' = [run |-> run_id, success |-> TRUE,
                        found |-> Len(raw), new |-> counts.new,
                        updated |-> counts.upd,
                        inactive |-> Cardinality(gone),
                        verr |-> verr, dberr |-> counts.err,
                        error |-> "None"]
    /\ LoadLocals
    /\ pc' = "idle"
    /\ UNCHANGED <<hist, shist, pend, filters, raw, rerun, clock, nruns,
                   nscraped, faults>>
    /\ props0' = <<>>
    /\ UNCHANGED cvars

\* ETLPipeline.run, lines 217-224: an SQLAlchemyError escapes _load (the
\* select of _mark_inactive fails): rollback and _create_error_result
FinishFail ==
    /\ pc = "mark" /\ faults < MaxFaults
    /\ faults' = faults + 1
    /\ Rollback
    /\ metas' = ErrorMetas(metas, Len(metas))
    /\ result' = ErrorResult(Len(metas), "Database error")
    /\ LoadLocals
    /\ pc' = "idle"
    /\ UNCHANGED <<props, hist, filters, raw, rerun, clock, nruns, nscraped>>
    /\ props0' = <<>>
    /\ UNCHANGED cvars

\* ETLPipeline.run, lines 181-186 and 217-224: _load has returned (the
\* marking is committed) and the commit of the run record raises
\* SQLAlchemyError: rollback and _create_error_result
FinalizeFail ==
    /\ pc = "mark" /\ faults < MaxFaults
    /\ faults' = faults + 1
    /\ LET ps == MarkInactive(sprops, ScrapedFundaIds(validated), filters.city,
                              filters.property_type)
       IN props' = ps /\ sprops' = ps
    /\ metas' = ErrorMetas(metas, Len(metas))
    /\ result' = ErrorResult(Len(metas), "Database error")
    /\ LoadLocals
    /\ pc' = "idle"
    /\ props0' = <<>>
    /\ UNCHANGED <<hist, shist, pend, filters, raw, rerun, clock, nruns,
                   nscraped>>
    /\ UNCHANGED cvars

Next ==
    \/ StartRun \/ StartRunSame \/ StartRunFail \/ Scrape \/ ExtractFail
    \/ ExtractFailOrphan
    \/ Extract \/ LoadItem \/ LoadItemFail \/ CommitBatch \/ CommitBatchFail
    \/ Finish \/ FinishFail \/ FinalizeFail

Spec == Init /\ [][Next]_vars

\* ------------------------------------------- calls studied on their own
\* the outcome of a call: still running, returned a value, raised an exception
Running == [status |-> "running", value |-> <<>>]
Returned(v) == [status |-> "returned", value |-> v]
Raised(e) == [status |-> "raised", value |-> e]

\* the sequences over S of length at most n
SeqsUpTo(S, n) == UNION {[1..k -> S] : k \in 0..n}

\* ------------------------------------------------ ETLPipeline.run_batch
MaxCities == 3
Cities == {"amsterdam", "rotterdam", "utrecht"}

\* settings.city_list: the default of default_cities, split on commas
CityList == <<"amsterdam", "rotterdam", "den-haag", "utrecht">>

\* `cities or settings.city_list`: an empty list is falsy, like None
RunBatchCities(cities) == IF cities = <<>> THEN CityList ELSE cities

\* self.run(filters) seen from run_batch: an ETLResult, failed when the
\* sources of the city fail (run() returns a result on every path)
RunOutcome(run_id, city, failing) ==
    IF city \in failing
    THEN ErrorResult(run_id, "All scrapers failed")
    ELSE [NoResult EXCEPT !.run = run_id, !.success = TRUE]

\* a loop that gives up at the first failed run
RunBatchMoreUntilFailure(cities, tr) ==
    /\ Len(tr) < Len(cities)
    /\ IF tr = <<>> THEN TRUE ELSE tr[Len(tr)].result.success

\* `for city in cities`: there is a next city; nothing in the body breaks
RunBatchMore(cities, tr) == Len(tr) < Len(cities)

\* a call run_batch(cities, property_type), with the cities whose sources
\* fail during it
InitBatch ==
    /\ PipelineInit
    /\ args \in [cities : SeqsUpTo(Cities, MaxCities),
                 property_type : PropertyType,
                 failing : SUBSET Cities]
    /\ trace = <<>>
    /\ ret = Running

\* one iteration: filters for the city, run, append the result
RunBatchIter ==
    /\ ret.status = "running"
    /\ RunBatchMore(RunBatchCities(args.cities), trace)
    /\ LET city == RunBatchCities(args.cities)[Len(trace) + 1]
           run_id == Len(trace) + 1
       IN trace' = Append(trace,
                      [city |-> city, property_type |-> args.property_type,
                       result |-> RunOutcome(run_id, city, args.failing)])
    /\ UNCHANGED <<args, ret>>
    /\ UNCHANGED pvars

\* `return results`
RunBatchReturn ==
    /\ ret.status = "running"
    /\ ~RunBatchMore(RunBatchCities(args.cities), trace)
    /\ ret' = Returned([k \in 1..Len(trace) |-> trace[k].result])
    /\ UNCHANGED <<args, trace>>
    /\ UNCHANGED pvars

NextBatch == RunBatchIter \/ RunBatchReturn

SpecBatch == InitBatch /\ [][NextBatch]_vars

\* ------------------------------------------------ raw_to_validated_batch
\* the RawListings of the study
RawListings ==
    [listing_id : Ids, price : 0..MaxPrice, city : RawCities,
     property_type : PropertyType, scraped_at : {0}]

\* raw_to_validated_batch as its caller sees it: the loop over the
\* listings, then the log line, which divides by len(raw_listings), then
\* the return of the two lists
RawToValidatedBatchCall(rs) ==
    IF Len(rs) = 0
    THEN Raised("ZeroDivisionError")
    ELSE Returned(RawToValidatedBatch(rs))

\* a call raw_to_validated_batch(raw_listings)
InitTransform ==
    /\ PipelineInit
    /\ args \in SeqsUpTo(RawListings, MaxListings)
    /\ trace = <<>>
    /\ ret = Running

ValidateBatch ==
    /\ ret.status = "running"
    /\ ret' = RawToValidatedBatchCall(args)
    /\ UNCHANGED <<args, trace>>
    /\ UNCHANGED pvars

NextTransform == ValidateBatch

SpecTransform == InitTransform /\ [][NextTransform]_vars

\* ----------------------------------------------------- PropertyAnalyzer
\* Floats are fixed-point numbers in thousandths: x stands for x / Scale.
\* A division is floored to a thousandth; round(x, 2) is Round2.
Scale == 1000

\* Optional values: None is <<>>, a value v is <<v>>
None == <<>>
Some(v) == <<v>>

\* the truth value Python gives an Optional number: None and 0 are falsy
Truthy(o) == o # None /\ o[1] # 0

Max2(a, b) == IF a >= b THEN a ELSE b
Min2(a, b) == IF a <= b THEN a ELSE b

\* round(x, 2): the nearest hundredth
Round2(x) == ((x + 5) \div 10) * 10

\* PropertyAnalyzer.calculate_z_score
CalculateZScore(value, mean, std) ==
    IF std = 0 THEN 0 ELSE ((value - mean) * Scale) \div std

\* PropertyAnalyzer.get_days_on_market: timedelta.days, the whole days of
\* now - scraped_at, floored; the times are in hours
GetDaysOnMarket(now, scraped_at) == (now - scraped_at) \div 24

\* a price-per-area subscore whose neutral value is 0
PpsScoreNeutralZero(pps, stats) ==
    IF stats # None /\ stats[1].std_price_per_sqm > 0
    THEN LET z_score == CalculateZScore(pps, stats[1].mean_price_per_sqm,
                                        stats[1].std_price_per_sqm)
         IN Max2(0, Min2(100 * Scale, 50 * Scale - z_score * 25))
    ELSE 0

\* calculate_undervalue_score, component 1: price per m2 against the
\* comparables, neutral 50.0 without a cohort that has a deviation
PpsScore(pps, stats) ==
    IF stats # None /\ stats[1].std_price_per_sqm > 0
    THEN LET z_score == CalculateZScore(pps, stats[1].mean_price_per_sqm,
                                        stats[1].std_price_per_sqm)
         IN Max2(0, Min2(100 * Scale, 50 * Scale - z_score * 25))
    ELSE 50 * Scale

\* calculate_undervalue_score, component 2: days on market
DomScore(days) ==
    IF days <= 30
    THEN Min2(40 * Scale, ((days * Scale) \div 30) * 40)
    ELSE IF days <= 60
         THEN 40 * Scale + (((days - 30) * Scale) \div 30) * 30
         ELSE 70 * Scale + Min2(30 * Scale, (((days - 60) * Scale) \div 60) * 30)

\* calculate_undervalue_score, component 3: price drops; price_drop is the
\* Optional percentage that get_price_drop_info returns
DropScore(price_drop) ==
    IF Truthy(price_drop) /\ price_drop[1] > 0
    THEN LET d == price_drop[1]
         IN IF d <= 5 * Scale
            THEN 60 * Scale + (d \div 5) * 15
            ELSE IF d <= 10 * Scale
                 THEN 75 * Scale + ((d - 5 * Scale) \div 5) * 15
                 ELSE 90 * Scale + Min2(10 * Scale, ((d - 10 * Scale) \div 10) * 10)
    ELSE 30 * Scale

\* the first part of the explanation: where the price per m2 stands
PpsExplanation(pps, stats) ==
    IF stats # None /\ stats[1].std_price_per_sqm > 0
    THEN LET mean == stats[1].mean_price_per_sqm
             pct_diff == (((pps - mean) * Scale) \div mean) * 100
         IN IF pct_diff < -10 * Scale THEN "below comparable properties"
            ELSE IF pct_diff > 10 * Scale THEN "above comparable properties"
            ELSE "near average for comparable properties"
    ELSE "no comparables for scoring"

\* calculate_undervalue_score, lines 207-208: the guard on price and area
Insufficient(property) ==
    \/ ~Truthy(property.price)
    \/ ~Truthy(property.living_area)
    \/ property.living_area[1] <= 0

\* PropertyAnalyzer.calculate_undervalue_score: (composite, components,
\* explanation); days and drop are what get_days_on_market and
\* get_price_drop_info return for the property
CalculateUndervalueScore(property, comparable_stats, days, drop) ==
    IF Insufficient(property)
    THEN [score |-> 0, components |-> <<>>,
          explanation |-> <<"Insufficient price or area data">>]
    ELSE LET price_per_sqm ==
                 (property.price[1] * Scale) \div property.living_area[1]
             scored == /\ comparable_stats # None
                       /\ comparable_stats[1].std_price_per_sqm > 0
             pps_score == PpsScore(price_per_sqm, comparable_stats)
             dom_score == DomScore(days)
             dropped == Truthy(drop.price_drop) /\ drop.price_drop[1] > 0
             drop_score == DropScore(drop.price_drop)
             composite ==
                 (pps_score * 40 + dom_score * 20 + drop_score * 40) \div 100
         IN [score |-> composite,
             components |->
                 [price_per_sqm_score |->
                      IF scored THEN Round2(pps_score) ELSE pps_score,
                  days_on_market_score |-> Round2(dom_score),
                  price_drop_score |->
                      IF dropped THEN Round2(drop_score) ELSE drop_score,
                  composite |-> Round2(composite)],
             explanation |->
                 <<PpsExplanation(price_per_sqm, comparable_stats),
                   "days on market">>
                 \o (IF dropped THEN <<"Price dropped">>
                     ELSE IF drop.num_observations >= 2
                          THEN <<"No price drops">> ELSE <<>>)]

\* the inputs of the study: prices, areas, cohorts, ages in hours, drops
Prices == {None, Some(-100), Some(0), Some(100), Some(300)}
Areas == {None, Some(-50), Some(0), Some(1), Some(50)}
Cohorts ==
    {None} \cup {Some(g) : g \in [mean_price_per_sqm : {2 * Scale, 6 * Scale},
                                  std_price_per_sqm : {0, 400, 4 * Scale}]}
Ages == {-1, 0, 23, 24 * 15, 24 * 30, 24 * 45, 24 * 60, 24 * 61, 24 * 120,
         24 * 10000}
PriceDrops ==
    {[price_drop |-> None, num_observations |-> 0],
     [price_drop |-> None, num_observations |-> 2]}
    \cup {[price_drop |-> Some(d), num_observations |-> 2] :
             d \in {0, 3 * Scale, 5 * Scale, 7500, 10 * Scale, 15 * Scale,
                    99 * Scale}}

\* a call calculate_undervalue_score(property, comparable_stats) at time 0,
\* or a call calculate_z_score(value, mean, std)
InitScore ==
    /\ PipelineInit
    /\ \/ args \in [fn : {"calculate_undervalue_score"},
                     property : [price : Prices, living_area : Areas,
                                 scraped_at : {-h : h \in Ages}],
                     comparable_stats : Cohorts,
                     drop : PriceDrops]
       \/ args \in [fn : {"calculate_z_score"},
                     value : {0, 2 * Scale, 100 * Scale},
                     mean : {0, 2 * Scale, 6 * Scale},
                     std : {0, 400, 4 * Scale}]
    /\ trace = <<>>
    /\ ret = Running

ScoreCall ==
    /\ ret.status = "running"
    /\ args.fn = "calculate_undervalue_score"
    /\ ret' = Returned(CalculateUndervalueScore(
                   args.property, args.comparable_stats,
                   GetDaysOnMarket(0, args.property.scraped_at), args.drop))
    /\ UNCHANGED <<args, trace>>
    /\ UNCHANGED pvars

ZScoreCall ==
    /\ ret.status = "running"
    /\ args.fn = "calculate_z_score"
    /\ ret' = Returned(CalculateZScore(args.value, args.mean, args.std))
    /\ UNCHANGED <<args, trace>>
    /\ UNCHANGED pvars

NextScore == ScoreCall \/ ZScoreCall

SpecScore == InitScore /\ [][NextScore]_vars

\* ------------------------------------------ get_comparable_properties
MaxOthers == 1

\* a select that leaves the status out
IsComparableAnyStatus(row, property, max_year_diff) ==
    /\ row.id # property.id
    /\ row.city = property.city
    /\ row.listing_type = property.listing_type
    /\ row.price # None
    /\ row.living_area # None /\ row.living_area[1] > 0
    /\ Truthy(property.rooms)
          => row.rooms # None /\ row.rooms[1] = property.rooms[1]
    /\ Truthy(property.year_built)
          => /\ row.year_built # None
             /\ row.year_built[1] >= property.year_built[1] - max_year_diff
             /\ row.year_built[1] <= property.year_built[1] + max_year_diff

\* the WHERE clause of get_comparable_properties, lines 59-85, as SQL
\* evaluates it for one row: a comparison with NULL does not select
IsComparable(row, property, max_year_diff) ==
    /\ row.id # property.id
    /\ row.city = property.city
    /\ row.listing_type = property.listing_type
    /\ row.price # None
    /\ row.living_area # None /\ row.living_area[1] > 0
    /\ row.status = "active"
    /\ Truthy(property.rooms)
          => row.rooms # None /\ row.rooms[1] = property.rooms[1]
    /\ Truthy(property.year_built)
          => /\ row.year_built # None
             /\ row.year_built[1] >= property.year_built[1] - max_year_diff
             /\ row.year_built[1] <= property.year_built[1] + max_year_diff

\* PropertyAnalyzer.get_comparable_properties over the rows of the table
GetComparableProperties(table, property, max_year_diff) ==
    LET Selected(row) == IsComparable(row, property, max_year_diff)
    IN SelectSeq(table, Selected)

\* the target properties and the other rows of the study; rooms and
\* year_built are None or positive, as the scrapers and the validation
\* leave them
Targets ==
    [id : {1}, city : {"Amsterdam"}, listing_type : {"buy"},
     price : {Some(100)}, living_area : {Some(50)}, status : {"active"},
     rooms : {None, Some(1), Some(2)},
     year_built : {None, Some(1980), Some(2000), Some(2001)}]

OtherRows(id) ==
    [id : {id}, city : {"Amsterdam", "Utrecht"}, listing_type : PropertyType,
     price : {None, Some(100)}, living_area : {None, Some(0), Some(50)},
     status : {"active", "inactive"},
     rooms : {None, Some(1), Some(2)},
     year_built : {None, Some(1980), Some(2000), Some(2001)}]

\* the tables that hold the target, then up to MaxOthers other rows, the
\* id of a row being its place
TablesOf(target) ==
    {<<target>>}
    \cup UNION {{<<target>> \o others :
                  others \in {o \in [1..n -> OtherRows(2) \cup OtherRows(3)] :
                                 \A k \in 1..n : o[k].id = k + 1}} :
               n \in 1..MaxOthers}

\* a call get_comparable_properties(property) with the default
\* max_year_diff of 20
InitComparables ==
    /\ PipelineInit
    /\ \E target \in Targets :
          args \in [property : {target}, table : TablesOf(target),
                    max_year_diff : {20}]
    /\ trace = <<>>
    /\ ret = Running

ComparablesCall ==
    /\ ret.status = "running"
    /\ ret' = Returned(GetComparableProperties(
                   args.table, args.property, args.max_year_diff))
    /\ UNCHANGED <<args, trace>>
    /\ UNCHANGED pvars

NextComparables == ComparablesCall

SpecComparables == InitComparables /\ [][NextComparables]_vars

\* ------------------------------------------ calculate_group_statistics
MaxCohort == 3

RECURSIVE InsertAscending(_, _)
\* x put into an ascending list
InsertAscending(sorted, x) ==
    IF sorted = <<>> THEN <<x>>
    ELSE IF Head(sorted) <= x
         THEN <<Head(sorted)>> \o InsertAscending(Tail(sorted), x)
         ELSE <<x>> \o sorted

RECURSIVE Sorted(_)
\* sorted(xs)
Sorted(xs) ==
    IF xs = <<>> THEN <<>>
    ELSE InsertAscending(Sorted(SubSeq(xs, 1, Len(xs) - 1)), xs[Len(xs)])

RECURSIVE Sum(_)
\* sum(xs)
Sum(xs) == IF xs = <<>> THEN 0 ELSE Head(xs) + Sum(Tail(xs))

\* x ** 0.5, floored to a thousandth, of a number of thousandths
Sqrt(x) == CHOOSE r \in 0..(4 * Scale) :
               r * r <= x * Scale /\ (r + 1) * (r + 1) > x * Scale

\* the population variance of xs around mean
Variance(xs, mean) ==
    Sum([k \in 1..Len(xs) |-> ((xs[k] - mean) * (xs[k] - mean)) \div Scale])
        \div Len(xs)

\* the loop of lines 103-105: a property counts if its price and living
\* area are truthy and the area is positive
Usable(p) == Truthy(p.price) /\ Truthy(p.living_area) /\ p.living_area[1] > 0

\* line 112: median_price = pps_sorted[len(prices_sorted) // 2]
MedianPrice(prices_sorted, pps_sorted) ==
    pps_sorted[Len(prices_sorted) \div 2 + 1]

\* PropertyAnalyzer.calculate_group_statistics: None, or the statistics
\* of the prices and of the prices per m2 of the usable properties
CalculateGroupStatistics(properties) ==
    LET usable == SelectSeq(properties, Usable)
        prices == [k \in 1..Len(usable) |-> usable[k].price[1] * Scale]
        price_per_sqm_list ==
            [k \in 1..Len(usable) |->
                (usable[k].price[1] * Scale) \div usable[k].living_area[1]]
        prices_sorted == Sorted(prices)
        pps_sorted == Sorted(price_per_sqm_list)
        mean_price == Sum(prices) \div Len(prices)
        mean_pps == Sum(price_per_sqm_list) \div Len(price_per_sqm_list)
    IN IF properties = <<>> \/ usable = <<>>
       THEN None
       ELSE Some([count |-> Len(properties),
                  median_price |-> MedianPrice(prices_sorted, pps_sorted),
                  mean_price |-> mean_price,
                  std_price |-> Sqrt(Variance(prices, mean_price)),
                  median_price_per_sqm |-> pps_sorted[Len(pps_sorted) \div 2 + 1],
                  mean_price_per_sqm |-> mean_pps,
                  std_price_per_sqm |->
                      Sqrt(Variance(price_per_sqm_list, mean_pps))])

\* a call calculate_group_statistics(properties)
InitStats ==
    /\ PipelineInit
    /\ args \in SeqsUpTo([price : {None, Some(0), Some(1), Some(3)},
                          living_area : {None, Some(1), Some(2)}],
                         MaxCohort)
    /\ trace = <<>>
    /\ ret = Running

StatsCall ==
    /\ ret.status = "running"
    /\ ret' = Returned(CalculateGroupStatistics(args))
    /\ UNCHANGED <<args, trace>>
    /\ UNCHANGED pvars

NextStats == StatsCall

SpecStats == InitStats /\ [][NextStats]_vars

\* ------------------------------------- find_undervalued_properties
MaxCandidates == 4
MaxLimit == 3

\* the composite scores of the study
CompositeScores == {30, 60, 90}

\* `query.limit(limit * 2)`: the first 2 * limit matching properties, each
\* with its place in the fetch order and what analyze_property gives for it
\* (None: the analysis raises)
Fetch(candidates, limit) ==
    [k \in 1..Min2(Len(candidates), limit * 2) |->
        [pos |-> k, composite_score |-> candidates[k]]]

\* the loop over the properties: one whose analysis raises is skipped, one
\* below min_score is dropped if min_score is given
KeepScored(properties, min_score) ==
    LET Kept(p) == /\ p.composite_score # None
                   /\ \/ min_score = None
                      \/ p.composite_score[1] >= min_score[1]
    IN SelectSeq(properties, Kept)

RECURSIVE InsertBeforeEqual(_, _)
\* a descending insertion that puts p before the entries of equal score
InsertBeforeEqual(sorted, p) ==
    IF sorted = <<>> THEN <<p>>
    ELSE IF Head(sorted).composite_score[1] > p.composite_score[1]
         THEN <<Head(sorted)>> \o InsertBeforeEqual(Tail(sorted), p)
         ELSE <<p>> \o sorted

RECURSIVE InsertDescending(_, _)
\* p put into a list sorted by descending score, after the entries whose
\* score is greater or equal
InsertDescending(sorted, p) ==
    IF sorted = <<>> THEN <<p>>
    ELSE IF Head(sorted).composite_score[1] >= p.composite_score[1]
         THEN <<Head(sorted)>> \o InsertDescending(Tail(sorted), p)
         ELSE <<p>> \o sorted

RECURSIVE SortUnstable(_)
\* a descending sort that reverses the entries of equal score
SortUnstable(ps) ==
    IF ps = <<>> THEN <<>>
    ELSE InsertBeforeEqual(SortUnstable(SubSeq(ps, 1, Len(ps) - 1)),
                           ps[Len(ps)])

RECURSIVE SortByScore(_)
\* list.sort(key=composite_score, reverse=True): descending and stable
SortByScore(ps) ==
    IF ps = <<>> THEN <<>>
    ELSE InsertDescending(SortByScore(SubSeq(ps, 1, Len(ps) - 1)),
                          ps[Len(ps)])

\* PropertyAnalyzer.find_undervalued_properties
FindUndervaluedProperties(candidates, min_score, limit) ==
    LET scored == SortByScore(KeepScored(Fetch(candidates, limit), min_score))
    IN SubSeq(scored, 1, Min2(Len(scored), limit))

\* a call find_undervalued_properties(min_score, limit) over a table whose
\* matching active properties come in the order of candidates
InitRank ==
    /\ PipelineInit
    /\ args \in [candidates :
                     SeqsUpTo({None} \cup {Some(c) : c \in CompositeScores},
                              MaxCandidates),
                 min_score : {None, Some(0), Some(50), Some(100)},
                 limit : 0..MaxLimit]
    /\ trace = <<>>
    /\ ret = Running

RankCall ==
    /\ ret.status = "running"
    /\ ret' = Returned(FindUndervaluedProperties(
                   args.candidates, args.min_score, args.limit))
    /\ UNCHANGED <<args, trace>>
    /\ UNCHANGED pvars

NextRank == RankCall

SpecRank == InitRank /\ [][NextRank]_vars

\* ------------------------------------------------ CompositeScraper.search
MaxAttempts == 3

\* what one call scraper.search(filters) can do: return a list of listings
\* (their ids; the list may be empty) or raise
SearchOutcomes ==
    {[ok |-> TRUE, listings |-> ls, error |-> "None"] :
        ls \in {<<>>, <<1>>, <<1, 2>>}}
    \cup {[ok |-> FALSE, listings |-> <<>>, error |-> e] :
        e \in {"ConnectionError", "ValueError"}}

\* the calls made so far to one of the two scrapers
CallsTo(tr, scraper) == {k \in 1..Len(tr) : tr[k].scraper = scraper}

\* _search_with_retry has used up its attempts on a scraper, all failed
Exhausted(tr, scraper, attempts) ==
    /\ Cardinality(CallsTo(tr, scraper)) = attempts
    /\ \A k \in CallsTo(tr, scraper) : ~tr[k].ok

\* a search that lets the error of the scraper through
SearchFailureReraised(pyfunda_error, html_error) ==
    Raised(IF html_error = "None" THEN pyfunda_error ELSE html_error)

\* search, lines 92-95 and 106-110: what is raised when the primary has
\* failed with fallback disabled (html_error "None") or both have failed
SearchFailure(pyfunda_error, html_error) == Raised("AllScrapersFailed")

\* a CompositeScraper(retry_attempts, enable_fallback) whose search is called
InitComposite ==
    /\ PipelineInit
    /\ args \in [retry_attempts : 1..MaxAttempts, enable_fallback : BOOLEAN]
    /\ trace = <<>>
    /\ ret = Running

\* one attempt of _search_with_retry(self._pyfunda, filters): a success
\* is returned, a failure is retried until the attempts are used up; then
\* search raises if fallback is disabled
PrimaryAttempt ==
    /\ ret.status = "running"
    /\ CallsTo(trace, "html") = {}
    /\ Cardinality(CallsTo(trace, "pyfunda")) < args.retry_attempts
    /\ \E o \in SearchOutcomes :
         LET tr == Append(trace, [scraper |-> "pyfunda", ok |-> o.ok,
                                  listings |-> o.listings,
                                  error |-> o.error])
         IN /\ trace' = tr
            /\ ret' = IF o.ok THEN Returned(o.listings)
                      ELSE IF /\ Exhausted(tr, "pyfunda", args.retry_attempts)
                              /\ ~args.enable_fallback
                           THEN SearchFailure(o.error, "None")
                           ELSE Running
    /\ UNCHANGED args
    /\ UNCHANGED pvars

\* one attempt of _search_with_retry(self._html, filters), made in the
\* handler of the primary's failure when fallback is enabled
FallbackAttempt ==
    /\ ret.status = "running"
    /\ Exhausted(trace, "pyfunda", args.retry_attempts)
    /\ args.enable_fallback
    /\ Cardinality(CallsTo(trace, "html")) < args.retry_attempts
    /\ \E o \in SearchOutcomes :
         LET tr == Append(trace, [scraper |-> "html", ok |-> o.ok,
                                  listings |-> o.listings,
                                  error |-> o.error])
             last == CHOOSE k \in CallsTo(trace, "pyfunda") :
                         \A j \in CallsTo(trace, "pyfunda") : j <= k
         IN /\ trace' = tr
            /\ ret' = IF o.ok THEN Returned(o.listings)
                      ELSE IF Exhausted(tr, "html", args.retry_attempts)
                           THEN SearchFailure(trace[last].error, o.error)
                           ELSE Running
    /\ UNCHANGED args
    /\ UNCHANGED pvars

NextComposite == PrimaryAttempt \/ FallbackAttempt

SpecComposite == InitComposite /\ [][NextComposite]_vars

\* ------------------------- two ETLPipeline._load on separate sessions
\* Two runs load their validated listings into the same PostgreSQL database
\* (config.py, db_url), each in its own session. args[r] are the funda_ids
\* of the validated listings of run r; trace.db are the committed Property
\* rows, reduced to their funda_id and the run that inserted them;
\* trace.run[r] is the position of run r in _load, the rows its session has
\* flushed and not committed, the ids its select found no row for, and its
\* counters.
MaxRaceListings == 2
Runs == 1..2
Other(r) == 3 - r

\* the validated listings of one run: distinct funda_ids
RaceListings ==
    {s \in SeqsUpTo(Ids, MaxRaceListings) :
        /\ s # <<>>
        /\ \A i, j \in 1..Len(s) : s[i] = s[j] => i = j}

\* the funda_ids of the rows in a sequence of rows
FundaIdsOf(rows) == {rows[k].funda_id : k \in 1..Len(rows)}

\* _load before its first listing
LoadStart == [pc |-> "select", idx |-> 1, session |-> <<>>, unseen |-> {},
              new |-> 0, err |-> 0]

InitConcurrent ==
    /\ PipelineInit
    /\ args \in [Runs -> RaceListings]
    /\ trace = [db |-> <<>>, run |-> [r \in Runs |-> LoadStart]]
    /\ ret = Running

\* the run after the listing at idx: the next listing or the batch commit
NextListing(r, st) ==
    [st EXCEPT !.idx = @ + 1,
               !.pc = IF BatchEnd(st.idx, Len(args[r]))
                      THEN "commit" ELSE "select"]

\* session.rollback(): what the session has flushed since its last commit
\* is gone
SessionRollback(st) == [st EXCEPT !.session = <<>>]

\* _load, lines 360-364: the select sees the committed rows and the rows of
\* its own session; an existing row is updated (not a new row)
SelectExisting(r) ==
    /\ ret = Running
    /\ LET st == trace.run[r]
           id == args[r][st.idx]
       IN /\ st.pc = "select"
          /\ IF id \in FundaIdsOf(trace.db) \union FundaIdsOf(st.session)
             THEN trace' = [trace EXCEPT !.run[r] = NextListing(r, st)]
             ELSE trace' = [trace EXCEPT !.run[r] =
                              [st EXCEPT !.pc = "insert",
                                         !.unseen = @ \union {id}]]
    /\ UNCHANGED <<args, ret>>
    /\ UNCHANGED pvars

\* _load, lines 370-373, and _insert_property: the INSERT is flushed. It
\* waits while the other session holds an uncommitted row of the same
\* funda_id; a committed one violates the unique index: IntegrityError,
\* lines 375-380
InsertNew(r) ==
    /\ ret = Running
    /\ LET st == trace.run[r]
           id == args[r][st.idx]
       IN /\ st.pc = "insert"
          /\ id \notin FundaIdsOf(trace.run[Other(r)].session)
          /\ IF id \in FundaIdsOf(trace.db)
             THEN trace' = [trace EXCEPT !.run[r] =
                              NextListing(r, [SessionRollback(st)
                                                EXCEPT !.err = @ + 1])]
             ELSE trace' = [trace EXCEPT !.run[r] =
                              NextListing(r,
                                [st EXCEPT !.session =
                                             Append(@, [funda_id |-> id,
                                                        by |-> r]),
                                           !.new = @ + 1])]
    /\ UNCHANGED <<args, ret>>
    /\ UNCHANGED pvars

\* both sessions wait for a row of the other: the database ends the
\* deadlock by failing the INSERT of one of them, lines 382-388
InsertDeadlock(r) ==
    /\ ret = Running
    /\ LET st == trace.run[r]
           ot == trace.run[Other(r)]
       IN /\ st.pc = "insert" /\ ot.pc = "insert"
          /\ args[r][st.idx] \in FundaIdsOf(ot.session)
          /\ args[Other(r)][ot.idx] \in FundaIdsOf(st.session)
          /\ trace' = [trace EXCEPT !.run[r] =
                         NextListing(r, [SessionRollback(st)
                                           EXCEPT !.err = @ + 1])]
    /\ UNCHANGED <<args, ret>>
    /\ UNCHANGED pvars

\* _load, lines 392-398: the batch commit
CommitSession(r) ==
    /\ ret = Running
    /\ LET st == trace.run[r]
       IN /\ st.pc = "commit"
          /\ trace' = [trace EXCEPT
                         !.db = @ \o st.session,
                         !.run[r] = [st EXCEPT
                                       !.session = <<>>,
                                       !.pc = IF st.idx > Len(args[r])
                                              THEN "mark" ELSE "select"]]
    /\ UNCHANGED <<args, ret>>
    /\ UNCHANGED pvars

\* the ETLResult of a run that has finished its load
LoadResult(st) == [success |-> TRUE, new |-> st.new, dberr |-> st.err]

\* _load, lines 404-414, and run, lines 181-206: the run returns its
\* result; the call returns when both runs have
LoadReturn(r) ==
    /\ ret = Running
    /\ trace.run[r].pc = "mark"
    /\ trace' = [trace EXCEPT !.run[r].pc = "done"]
    /\ ret' = IF trace.run[Other(r)].pc = "done"
              THEN Returned([q \in Runs |-> LoadResult(trace.run[q])])
              ELSE ret
    /\ UNCHANGED args
    /\ UNCHANGED pvars

NextConcurrent ==
    \E r \in Runs :
        \/ SelectExisting(r)
        \/ InsertNew(r)
        \/ InsertDeadlock(r)
        \/ CommitSession(r)
        \/ LoadReturn(r)

SpecConcurrent == InitConcurrent /\ [][NextConcurrent]_vars

\* ---------------------------------------------------------------- claims
\* the run is in its load stage
InLoad == pc \in {"load", "commit", "mark"}

\* no listing of the scrape was rejected by validation
AllValid == Len(validated) = Len(raw)

\* the validated listings carry pairwise distinct funda_ids
DistinctIds == Cardinality(ScrapedFundaIds(validated)) = Len(validated)

\* the index of the last occurrence of funda_id f in the listings vs
LastOccurrence(vs, f) ==
    CHOOSE k \in 1..Len(vs) :
        /\ vs[k].funda_id = f
        /\ \A j \in (k + 1)..Len(vs) : vs[j].funda_id # f

\* the ids of the rows of ps that carry funda_id f
RowsOf(ps, f) == {k \in 1..Len(ps) : ps[k].funda_id = f}

\* the price_history rows of one property, in insertion order
HistOf(h, pid) == SelectSeq(h, LAMBDA r : r.pid = pid)

SessionHist == shist \o pend

\* the ledger h agrees with the properties ps: a property has a first row
\* from its insertion, every later row carries a price different from the
\* row before it, the last row carries the stored price, and there are no
\* other rows
LedgerAgrees(ps, h) ==
    /\ \A pid \in 1..Len(ps) :
          LET hp == HistOf(h, pid)
          IN /\ hp # <<>>
             /\ hp[Len(hp)].price = ps[pid].price
             /\ \A k \in 1..(Len(hp) - 1) : hp[k].price # hp[k + 1].price
    /\ \A k \in 1..Len(h) : h[k].pid \in 1..Len(ps)

C3_Original ==
    (pc = "mark" /\ faults = 0 /\ ~DistinctIds)
      => \A k \in 1..Len(validated) :
            LET f == validated[k].funda_id
                l == validated[LastOccurrence(validated, f)]
            IN /\ Cardinality(RowsOf(props, f)) = 1
               /\ \A pid \in RowsOf(props, f) :
                     /\ props[pid].price = l.price
                     /\ props[pid].scraped_at = l.scraped_at

\* every listing of the run carries a funda_id that was persisted before it
AllKnown ==
    /\ validated # <<>>
    /\ \A k \in 1..Len(validated) : RowsOf(props0, validated[k].funda_id) # {}

\* the step in which a run ends with a success result
RunSucceeds == pc = "mark" /\ pc' = "idle" /\ result'.success

\* the rows of ps carry the values of the last occurrence of each listing
ValuesWritten(ps, vs) ==
    \A k \in 1..Len(vs) :
        LET f == vs[k].funda_id
            l == vs[LastOccurrence(vs, f)]
        IN \A pid \in RowsOf(ps, f) : /\ ps[pid].price = l.price
                                      /\ ps[pid].scraped_at = l.scraped_at

RawIds == {raw[k].listing_id : k \in 1..Len(raw)}

\* the row belongs to the scope of the run: the stored city is the filters'
\* city as given, the listing type is the one searched for
InScope(row) ==
    row.city = filters.city /\ row.listing_type = filters.property_type

\* the rows that were active when the run started and are inactive in ps
WentInactive(ps) ==
    {pid \in 1..Len(props0) : /\ props0[pid].status = "active"
                              /\ ps[pid].status = "inactive"}

\* every validated listing has a row in ps, and the row is active
SightedActive(ps, vs) ==
    \A k \in 1..Len(vs) :
        /\ RowsOf(ps, vs[k].funda_id) # {}
        /\ \A pid \in RowsOf(ps, vs[k].funda_id) : ps[pid].status = "active"

\* the rows that were active and in scope when the run started and whose
\* funda_id is not in the scrape are inactive in ps
AbsentInactive(ps) ==
    \A pid \in 1..Len(props0) :
        (/\ props0[pid].status = "active"
         /\ InScope(props0[pid])
         /\ props0[pid].funda_id \notin RawIds) => ps[pid].status = "inactive"

Resighted ==
    {pid \in 1..Len(props0) :
        /\ props0[pid].status = "inactive"
        /\ props0[pid].funda_id \in ScrapedFundaIds(validated)}

\* the rows of ps are active or inactive
StatusDefined(ps) ==
    \A pid \in 1..Len(ps) : ps[pid].status \in {"active", "inactive"}

\* the resighted rows are active in ps and carry the price of their listing
ResightedActive(ps) ==
    \A pid \in Resighted :
        LET l == validated[LastOccurrence(validated, ps[pid].funda_id)]
        IN ps[pid].status = "active" /\ ps[pid].price = l.price

Lost(ps) == {f \in ScrapedFundaIds(validated) : RowsOf(ps, f) = {}}

\* C7 as stated: a failure rolls back the work of the failing listing only
\* and is counted once, so when the run has ended there are no more listings
\* without a row than errors counted.
C7_Original ==
    [][RunSucceeds => Cardinality(Lost(props')) <= result'.dberr]_vars

\* the positions in the scrape of the listings with a non-positive price
Rejected == {k \in 1..Len(raw) : raw[k].price <= 0}

\* every listing of the scrape with a positive price has a row in ps
ValidLoaded(ps) ==
    \A k \in 1..Len(raw) :
        raw[k].price > 0 => RowsOf(ps, raw[k].listing_id) # {}

SourceFails ==
    pc = "extract" /\ pc' = "idle" /\ result'.error = "All scrapers failed"

\* every count of the result r is zero
ZeroResult(r) ==
    /\ r.found = 0 /\ r.new = 0 /\ r.updated = 0
    /\ r.inactive = 0 /\ r.verr = 0 /\ r.dberr = 0

LoadFails == pc = "mark" /\ pc' = "idle" /\ ~result'.success

\* C10 as stated: when an error escapes the load stage, what the batches
\* have committed stays committed, and the result and the run record carry
\* the counts the load had reached.
C10_Original ==
    [][LoadFails
         => /\ Len(props') = Len(props) /\ hist' = hist
            /\ result'.new = counts.new
            /\ result'.updated = counts.upd
            /\ metas'[Len(metas)].new = counts.new
            /\ metas'[Len(metas)].updated = counts.upd]_vars

\* the step in which run() returns, its run record having been committed
RunReturns == pc # "idle" /\ pc' = "idle"

\* no run record that is finished is changed
FinishedFrozen ==
    \A i \in 1..Len(metas) : metas[i].finished => metas'[i] = metas[i]

StageRaises ==
    \/ pc = "extract" /\ pc' = "idle"
    \/ pc = "mark" /\ pc' = "idle" /\ faults' > faults

InOrder(cs) ==
    /\ Len(trace) <= Len(cs)
    /\ \A k \in 1..Len(trace) : /\ trace[k].city = cs[k]
                                /\ trace[k].property_type = args.property_type

\* the list returned holds the result of the k-th run at position k, and
\* the run for a city failed exactly if the sources of that city fail
OnePerCity(cs) ==
    /\ Len(ret.value) = Len(cs)
    /\ \A k \in 1..Len(cs) :
          /\ ret.value[k] = trace[k].result
          /\ ret.value[k].run = k
          /\ ret.value[k].success <=> cs[k] \notin args.failing

IsInvalid(r) == ~IsValid(r)

\* the two lists returned hold every listing given exactly once: the valid
\* ones converted, in the order given, and the others as they were given
Partitioned(rs, out) ==
    LET good == SelectSeq(rs, IsValid)
    IN /\ Len(out[1]) + Len(out[2]) = Len(rs)
       /\ out[1] = [k \in 1..Len(good) |-> RawToValidated(good[k])]
       /\ out[2] = SelectSeq(rs, IsInvalid)

\* C14: raw_to_validated_batch puts every input listing in exactly one of
\* its two outputs, so that their lengths add up to the length of the input,
\* keeps the source order in the validated list and returns the rejected
\* listings in their raw form, whatever the other listings are.
C14_Original ==
    ret.status # "running"
        => ret.status = "returned" /\ Partitioned(args, ret.value)

\* calculate_undervalue_score has returned
Scored == ret.status = "returned" /\ args.fn = "calculate_undervalue_score"

InRange(x) == 0 <= x /\ x <= 100 * Scale

\* C15: for any input, each of the three subscores and the composite
\* returned by calculate_undervalue_score lie within [0,100] inclusive.
C15_Original ==
    Scored /\ ret.value.components # <<>>
        => /\ InRange(ret.value.score)
           /\ \A k \in DOMAIN ret.value.components :
                  InRange(ret.value.components[k])

\* the property has a positive price and a positive living area
PositivePriceAndArea(property) ==
    /\ property.price # None /\ property.price[1] > 0
    /\ property.living_area # None /\ property.living_area[1] > 0

\* the result for a property without the data needed
InsufficientData(r) ==
    /\ r.score = 0
    /\ r.components = <<>>
    /\ r.explanation = <<"Insufficient price or area data">>

\* C17: calculate_undervalue_score returns score 0.0, an empty component
\* breakdown and the insufficient-data explanation whenever the property
\* does not have both a positive price and a positive living area, and
\* computes a score only for the properties that have both.
C17_Original ==
    Scored => IF PositivePriceAndArea(args.property)
              THEN ret.value.components # <<>>
              ELSE InsufficientData(ret.value)

\* the cohort carries no signal: absent (None, which is also what an empty
\* cohort gives) or without deviation of the price per area
NoSignal(stats) == stats = None \/ stats[1].std_price_per_sqm = 0

\* C18: a cohort without signal never causes an error and gives the neutral
\* value: calculate_z_score returns exactly 0.0 whenever std is 0, and the
\* price-per-area subscore is exactly 50 whenever the property has a
\* positive price and area and the cohort is empty, absent or has zero
\* deviation.
C18_NeutralCohort ==
    /\ ret.status # "raised"
    /\ ret.status = "returned" /\ args.fn = "calculate_z_score" /\ args.std = 0
          => ret.value = 0
    /\ Scored /\ PositivePriceAndArea(args.property)
               /\ NoSignal(args.comparable_stats)
          => ret.value.components.price_per_sqm_score = 50 * Scale

C18_Witness ==
    /\ Scored /\ PositivePriceAndArea(args.property)
    /\ args.comparable_stats # None /\ NoSignal(args.comparable_stats)
    /\ args.property.price[1] * Scale
          # args.comparable_stats[1].mean_price_per_sqm
            * args.property.living_area[1]
    /\ ret.value.components.price_per_sqm_score = 50 * Scale

\* sorted by composite score, non-increasing, equal scores in fetch order
RankedStable(rs) ==
    \A i, j \in 1..Len(rs) :
        i < j => /\ rs[i].composite_score[1] >= rs[j].composite_score[1]
                 /\ rs[i].composite_score[1] = rs[j].composite_score[1]
                       => rs[i].pos < rs[j].pos

\* C16: find_undervalued_properties returns at most limit results, none
\* with a composite score below min_score when min_score is given, sorted
\* by composite score in non-increasing order, entries of equal score in the
\* order in which the candidates were fetched.
C16_Ranking ==
    ret.status = "returned"
        => /\ Len(ret.value) <= args.limit
           /\ \A k \in 1..Len(ret.value) :
                 /\ ret.value[k].pos \in 1..Len(args.candidates)
                 /\ ret.value[k].composite_score
                       = args.candidates[ret.value[k].pos]
                 /\ args.min_score # None
                       => ret.value[k].composite_score[1] >= args.min_score[1]
           /\ RankedStable(ret.value)

C16_Witness ==
    /\ ret.status = "returned"
    /\ args.candidates = <<Some(90), Some(60), Some(90), Some(30)>>
    /\ args.min_score = Some(50)
    /\ Len(ret.value) = 3
    /\ ret.value[1].pos = 1 /\ ret.value[2].pos = 3 /\ ret.value[3].pos = 2

\* some attempt on the primary succeeded
PrimarySucceeded == \E k \in CallsTo(trace, "pyfunda") : trace[k].ok

\* the fallback has been called
FallbackCalled == CallsTo(trace, "html") # {}

\* the search is over for want of a scraper that works
AllFailed ==
    /\ Exhausted(trace, "pyfunda", args.retry_attempts)
    /\ args.enable_fallback => Exhausted(trace, "html", args.retry_attempts)

\* C19: search returns the primary's listings when the primary succeeds
\* within its attempts and then never calls the fallback; it calls the
\* fallback only after the primary has failed all its attempts and fallback
\* is enabled; and it raises AllScrapersFailed, and no other exception, when
\* both scrapers fail or the primary fails and fallback is disabled.
C19_Fallback ==
    /\ Cardinality(CallsTo(trace, "pyfunda")) <= args.retry_attempts
    /\ PrimarySucceeded
          => /\ ~FallbackCalled
             /\ trace[Len(trace)].ok
             /\ ret = Returned(trace[Len(trace)].listings)
    /\ FallbackCalled
          => /\ args.enable_fallback
             /\ Exhausted(trace, "pyfunda", args.retry_attempts)
             /\ \A i \in CallsTo(trace, "html"), j \in CallsTo(trace, "pyfunda") :
                   j < i
    /\ AllFailed => ret = Raised("AllScrapersFailed")
    /\ ret.status = "raised" => AllFailed /\ ret.value = "AllScrapersFailed"
    /\ ret.status = "returned"
          => trace[Len(trace)].ok /\ ret.value = trace[Len(trace)].listings

C19_Witness ==
    /\ ret = Raised("AllScrapersFailed")
    /\ args.enable_fallback
    /\ args.retry_attempts = MaxAttempts
    /\ Len(trace) = 2 * MaxAttempts
    /\ trace[MaxAttempts].error # trace[2 * MaxAttempts].error

\* the funda_ids of the committed properties
CommittedIds(ps) == {ps[k].funda_id : k \in 1..Len(ps)}

\* C20: no reconcile run deletes or rewrites committed data: the set of
\* external ids of the committed properties never shrinks, the external id
\* of a property never changes, and the committed PriceHistory rows are
\* never removed or modified, only appended to.
C20_AppendOnly ==
    [][/\ CommittedIds(props) \subseteq CommittedIds(props')
       /\ Len(props') >= Len(props)
       /\ \A k \in 1..Len(props) : props'[k].funda_id = props[k].funda_id
       /\ Len(hist') >= Len(hist)
       /\ \A k \in 1..Len(hist) : hist'[k] = hist[k]]_vars

\* two properties and their history are committed, one property has gone
\* inactive, and the last run lost items to database errors
C20_Witness ==
    /\ pc = "idle"
    /\ Len(props) = 2 /\ Len(hist) >= 2
    /\ \E k \in 1..Len(props) : props[k].status = "inactive"
    /\ result.dberr > 0

\* the candidates of the whole population that analyze and pass min_score
Eligible ==
    {k \in 1..Len(args.candidates) :
        /\ args.candidates[k] # None
        /\ \/ args.min_score = None
           \/ args.candidates[k][1] >= args.min_score[1]}

\* the places in the fetch order of the properties returned
ReturnedPos == {ret.value[k].pos : k \in 1..Len(ret.value)}

\* C30: find_undervalued_properties returns the limit best eligible
\* properties of the whole filtered population: no matching property that
\* passes min_score is left out while a property with a lower composite
\* score is included, and none is left out while there is room.
C30_Original ==
    ret.status = "returned"
        => \A k \in Eligible \ ReturnedPos :
              /\ Len(ret.value) = args.limit
              /\ \A j \in 1..Len(ret.value) :
                    ret.value[j].composite_score[1] >= args.candidates[k][1]

\* m is the element at index floor(N/2) (from 0) of the ascending-sorted
\* array of the N values xs
IsMedian(m, xs) ==
    /\ \E k \in 1..Len(xs) : xs[k] = m
    /\ Cardinality({k \in 1..Len(xs) : xs[k] < m}) <= Len(xs) \div 2
    /\ Cardinality({k \in 1..Len(xs) : xs[k] <= m}) > Len(xs) \div 2

\* the prices and the prices per area of the usable properties of the
\* cohort given
CohortPrices ==
    LET usable == SelectSeq(args, Usable)
    IN [k \in 1..Len(usable) |-> usable[k].price[1] * Scale]

CohortPricesPerArea ==
    LET usable == SelectSeq(args, Usable)
    IN [k \in 1..Len(usable) |->
           (usable[k].price[1] * Scale) \div usable[k].living_area[1]]

\* C25: calculate_group_statistics computes each median over its own
\* array: the median price is the element at index floor(N/2) of the sorted
\* prices and the median price per area the element at index floor(N/2) of
\* the sorted prices per area, for every non-empty cohort.
C25_Original ==
    ret.status = "returned" /\ ret.value # None
        => /\ IsMedian(ret.value[1].median_price, CohortPrices)
           /\ IsMedian(ret.value[1].median_price_per_sqm, CohortPricesPerArea)

\* what the claim asks of a property returned for the target
ComparableTo(c, target, max_year_diff) ==
    /\ c.id # target.id
    /\ c.status = "active"
    /\ c.city = target.city /\ c.listing_type = target.listing_type
    /\ c.price # None
    /\ c.living_area # None /\ c.living_area[1] > 0
    /\ target.rooms # None => c.rooms = target.rooms
    /\ target.year_built # None
          => /\ c.year_built # None
             /\ c.year_built[1] - target.year_built[1] <= max_year_diff
             /\ target.year_built[1] - c.year_built[1] <= max_year_diff

\* C21: every property returned by get_comparable_properties differs from
\* the target, is active, has the target's city and listing type, has a
\* price and a living area greater than 0, has the target's room count when
\* the target has one and a year_built within max_year_diff years of the
\* target's when the target has one; when no row passes the narrowed
\* filters the result is empty, with no widening.
C21_Comparables ==
    ret.status = "returned"
        => /\ \A k \in 1..Len(ret.value) :
                 /\ \E j \in 1..Len(args.table) : args.table[j] = ret.value[k]
                 /\ ComparableTo(ret.value[k], args.property,
                                 args.max_year_diff)
           /\ (\A j \in 1..Len(args.table) :
                   ~ComparableTo(args.table[j], args.property,
                                 args.max_year_diff))
                 => ret.value = <<>>

\* a comparable built exactly max_year_diff years before the target
C21_Witness ==
    /\ ret.status = "returned"
    /\ Len(ret.value) = 1
    /\ args.property.rooms = Some(2)
    /\ args.property.year_built = Some(2000)
    /\ ret.value[1].year_built = Some(1980)

\* the step that follows a source call which succeeded with zero listings
EmptyScrape ==
    /\ pc = "extract" /\ raw = <<>> /\ pc' # "extract"
    /\ result'.error # "All scrapers failed"

\* C22: when the source call succeeds and returns zero listings for a
\* scope, the run completes without error, with success = true and zero new
\* and updated, and every property that was active in that scope is
\* inactive afterwards.
C22_Original ==
    [][EmptyScrape /\ pc' = "idle"
         => /\ result'.success
            /\ result'.new = 0 /\ result'.updated = 0
            /\ \A pid \in 1..Len(props) :
                  InScope(props[pid]) => props'[pid].status = "inactive"]_vars

\* C26: a property whose external id appears in the raw scrape of a run is
\* never marked inactive by that run, also when its listing is rejected by
\* validation or fails to persist in the load stage.
C26_Original ==
    [][\A pid \in 1..Len(props) :
          (/\ pc # "idle"
           /\ props[pid].status = "active"
           /\ props'[pid].status = "inactive")
              => props[pid].funda_id \notin RawIds]_vars

\* the row belongs to the city and the listing type that the filters name,
\* however the filters spell the city
InNamedScope(row) ==
    /\ Title(row.city) = Title(filters.city)
    /\ row.listing_type = filters.property_type

\* C28: delisting does not depend on how the filters spell the city: with
\* the filters city 'amsterdam', every property that a successful run
\* inserts lies in the scope that its mark-inactive step examines, and every
\* active property of the city and listing type that is absent from the
\* scrape is marked inactive by the run.
C28_Original ==
    [][RunSucceeds /\ filters.city = "amsterdam"
         => /\ \A pid \in (Len(props0) + 1)..Len(props') :
                  InNamedScope(props'[pid]) => InScope(props'[pid])
            /\ \A pid \in 1..Len(props0) :
                  (/\ props0[pid].status = "active"
                   /\ InNamedScope(props0[pid])
                   /\ props0[pid].funda_id \notin RawIds)
                      => props'[pid].status = "inactive"]_vars

\* a time of the pipeline's clock in hours: one tick is one day
Hours(t) == 24 * t

\* the time at which the property was first seen: the observed_at of the
\* PriceHistory row that its insertion wrote
FirstSeen(pid) == HistOf(hist, pid)[1].at

\* C23: the days-on-market of a property is the number of whole days
\* between the time it was first seen (its first insert) and the evaluation
\* time; sighting it again in later runs does not reset or shrink it.
C23_Original ==
    \A pid \in 1..Len(props) : \A now \in clock..MaxTime :
        GetDaysOnMarket(Hours(now), Hours(props[pid].scraped_at))
            = GetDaysOnMarket(Hours(now), Hours(FirstSeen(pid)))

\* the most recently appended PriceHistory row of the property in h
LastAppended(h, pid) == HistOf(h, pid)[Len(HistOf(h, pid))]

\* C24: in every committed database state, which is what a concurrent
\* analysis query can observe, a PriceHistory append and the price change of
\* its owning Property appear together or not at all: every property has a
\* PriceHistory row and the price of its most recently appended row is the
\* stored price of the property.
C24_AtomicAppend ==
    \A pid \in 1..Len(props) :
        /\ HistOf(hist, pid) # <<>>
        /\ LastAppended(hist, pid).price = props[pid].price

\* a batch with a price change is committed while the run goes on with
\* uncommitted work in its session
C24_Witness ==
    /\ pc = "commit"
    /\ sprops # props \/ pend # <<>>
    /\ \E pid \in 1..Len(props) :
          /\ Len(HistOf(hist, pid)) = 2
          /\ HistOf(hist, pid)[1].price # props[pid].price
          /\ LastAppended(hist, pid).price = props[pid].price

\* the rows of the load's start that ps holds with another price or
\* scraped_at, or active again
ChangedRows(ps) ==
    {pid \in 1..Len(props0) :
        \/ ps[pid].price # props0[pid].price
        \/ ps[pid].scraped_at # props0[pid].scraped_at
        \/ props0[pid].status = "inactive" /\ ps[pid].status = "active"}

\* C27 as stated: on every completed load new_count is the number of
\* Property rows the run inserted and committed, updated_count the number of
\* existing rows it changed and committed, also after a rollback, and no
\* listing is counted both as new or updated and as a db error.
C27_Original ==
    [][RunSucceeds
         => /\ result'.new = Len(props') - Len(props0)
            /\ result'.updated = Cardinality(ChangedRows(props'))
            /\ result'.new + result'.updated + result'.dberr
                  <= Len(validated)]_vars

\* the funda_ids that the selects of both runs found no row for
Raced == trace.run[1].unseen \intersect trace.run[2].unseen

\* the committed rows of the funda_id
RaceRows(id) == {k \in 1..Len(trace.db) : trace.db[k].funda_id = id}

\* the raced funda_ids whose committed row is not of run r
LostRaces(r) ==
    {id \in Raced : \A k \in RaceRows(id) : trace.db[k].by # r}

\* C29 as stated: when two runs on separate sessions both find a funda_id
\* unseen, exactly one Property row of it is persisted, the losing run
\* counts one db error for that listing, loses none of the other listings
\* it has processed, and returns success=true.
C29_Original ==
    ret.status = "returned"
      => /\ \A id \in Raced : Cardinality(RaceRows(id)) = 1
         /\ \A r \in Runs :
               /\ ret.value[r].success
               /\ ret.value[r].dberr = Cardinality(LostRaces(r))
               /\ \A k \in 1..Len(args[r]) : RaceRows(args[r][k]) # {}

====
